---------------------------- MODULE Spec2Model ----------------------------
(***************************************************************************)
(* A model of src/app.py, the BPMN -> Extensions Generator.                *)
(*                                                                         *)
(* Text values (identifiers, names, CSV text) are sequences of one         *)
(* character strings, so that trimming, fence removal and equality of      *)
(* texts are computed character by character as the Python code does.      *)
(*                                                                         *)
(* Four specifications share the module:                                   *)
(*   Spec       the interactive session: uploads and the four generators   *)
(*   SpecAlign  align_to_tasks applied to bounded tables and task lists    *)
(*   SpecParse  parse_named_tasks applied to bounded documents             *)
(*   SpecClean  clean_csv_text applied (twice) to bounded texts            *)
(***************************************************************************)
EXTENDS Naturals, Sequences, FiniteSets

VARIABLES
    \* ---- the session (module level state of app.py and st.session_state)
    OPENAI_API_KEY,   \* st.secrets["OPENAI_API_KEY"], "" when not configured
    uploaded,         \* the file in the uploader widget: <<>> or <<document>>
    tasks,            \* the task list of the latest script run
    session_state,    \* st.session_state: kind -> <<>> (None) or <<table>>
    clicked,          \* the button pressed in the latest script run, or "none"
    st_error,         \* the st.error message of the latest script run, or <<>>
    called,           \* call_openai_rows was entered in the latest script run
    failure,          \* what raised inside the latest try block
    \* ---- align_to_tasks applied to an argument
    arg_tasks, arg_df, ret_df, align_pc,
    \* ---- parse_named_tasks applied to an argument
    bpmn_xml, ret_tasks, parse_pc,
    \* ---- clean_csv_text applied to an argument, then to its own result
    raw, txt1, txt2, clean_pc

sessionVars == <<OPENAI_API_KEY, uploaded, tasks, session_state, clicked,
                 st_error, called, failure>>
alignVars   == <<arg_tasks, arg_df, ret_df, align_pc>>
parseVars   == <<bpmn_xml, ret_tasks, parse_pc>>
cleanVars   == <<raw, txt1, txt2, clean_pc>>
vars        == <<sessionVars, alignVars, parseVars, cleanVars>>

---------------------------------------------------------------------------
(* Bounds of the model *)

\* Longest text handed to clean_csv_text, counted in segments of Segments.
MaxParts == 5

\* Most tasks in a task list handed to align_to_tasks.
MaxTasks == 2

\* Most rows in a table handed to align_to_tasks.
MaxRows == 2

\* Most elements below the root of a document handed to parse_named_tasks.
MaxNodes == 3

---------------------------------------------------------------------------
(* Text helpers: Python's str and re on sequences of characters *)

\* Python's None where a text is expected (attrib.get(...) of a missing
\* attribute, a None argument): a value no text is equal to.
None == <<"None">>

Whitespace == {" ", "\n"}

\* The grave accent (backtick) character; SANY strings cannot hold it, so
\* it is written as the token "BT".
Backtick == "BT"

Fence == <<Backtick, Backtick, Backtick>>

\* s[i..j], empty when j < i.
Slice(s, i, j) == [k \in 1..(IF j < i THEN 0 ELSE j - i + 1) |-> s[i + k - 1]]

StartsWith(s, p) == Len(s) >= Len(p) /\ Slice(s, 1, Len(p)) = p

RECURSIVE lstrip(_)
lstrip(s) ==
    IF s # <<>> /\ Head(s) \in Whitespace THEN lstrip(Tail(s)) ELSE s

RECURSIVE rstrip(_)
rstrip(s) ==
    IF s # <<>> /\ s[Len(s)] \in Whitespace
    THEN rstrip(Slice(s, 1, Len(s) - 1)) ELSE s

\* str.strip()
strip(s) == rstrip(lstrip(s))

\* str.replace(old, ""), old a single character.
RECURSIVE remove_char(_, _)
remove_char(s, c) ==
    IF s = <<>> THEN <<>>
    ELSE IF Head(s) = c THEN remove_char(Tail(s), c)
    ELSE <<Head(s)>> \o remove_char(Tail(s), c)

\* re.sub(r"^FENCE(?:csv|CSV)?\s*", "", s), FENCE being three backticks:
\* without re.MULTILINE the pattern matches at the start of the text only;
\* the optional tag and the whitespace are greedy.
sub_leading_fence(s) ==
    IF ~StartsWith(s, Fence) THEN s
    ELSE LET a == Slice(s, 4, Len(s))
             b == IF StartsWith(a, <<"c", "s", "v">>)
                     \/ StartsWith(a, <<"C", "S", "V">>)
                  THEN Slice(a, 4, Len(a)) ELSE a
         IN  lstrip(b)

\* "$" without re.MULTILINE: the end of the text, or just before a newline
\* that ends the text. i is the position after the match.
AtDollar(s, i) == i = Len(s) + 1 \/ (i = Len(s) /\ s[i] = "\n")

\* \s*FENCE$ matches s[i..j+2]: whitespace s[i..j-1], the fence s[j..j+2].
TrailingFenceAt(s, i, j) ==
    /\ \A k \in i..(j - 1) : s[k] \in Whitespace
    /\ j + 2 <= Len(s)
    /\ Slice(s, j, j + 2) = Fence
    /\ AtDollar(s, j + 3)

\* re.sub(r"\s*FENCE$", "", s): the leftmost match is removed; what follows it
\* (a newline ending the text) holds no fence, so no second match exists.
sub_trailing_fence(s) ==
    LET M == {i \in 1..Len(s) : \E j \in i..Len(s) : TrailingFenceAt(s, i, j)}
    IN  IF M = {} THEN s
        ELSE LET i == CHOOSE x \in M : \A y \in M : x <= y
                 j == CHOOSE y \in i..Len(s) : TrailingFenceAt(s, i, y)
             IN  Slice(s, 1, i - 1) \o Slice(s, j + 3, Len(s))

\* clean_csv_text without its last line: a normalizer that leaves the
\* whitespace the removal of backticks exposes.
clean_csv_text_no_final_strip(s) ==
    LET t0 == strip(IF s = None THEN <<>> ELSE s)
        t1 == sub_leading_fence(t0)
        t2 == sub_trailing_fence(t1)
    IN  remove_char(t2, Backtick)

clean_csv_text(s) ==
    LET t0 == strip(IF s = None THEN <<>> ELSE s)
        t1 == sub_leading_fence(t0)
        t2 == sub_trailing_fence(t1)
        t3 == remove_char(t2, Backtick)
    IN  strip(t3)

---------------------------------------------------------------------------
(* Inputs of clean_csv_text *)

Segments == { Fence, <<Backtick>>, <<" ">>, <<"\n">>,
              <<"c", "s", "v">>, <<"C", "S", "V">>, <<"a">> }

RECURSIVE Texts(_)
Texts(n) ==
    IF n = 0 THEN {<<>>}
    ELSE LET S == Texts(n - 1) IN S \cup {s \o g : s \in S, g \in Segments}

CleanInputs == Texts(MaxParts) \cup {None}

---------------------------------------------------------------------------
(* parse_named_tasks *)

\* A document is [wellformed |-> BOOLEAN, nodes |-> the elements below the
\* root in document order]; an element is [tag, id, name, qname], the three
\* attributes being a text or None when the attribute is absent. qname is
\* the attribute "{http://www.omg.org/spec/BPMN/20100524/MODEL}name".

\* root.findall(".//bpmn:task", NS): the task elements in document order.
RECURSIVE findall_task(_)
findall_task(nodes) ==
    IF nodes = <<>> THEN <<>>
    ELSE (IF Head(nodes).tag = "task" THEN <<Head(nodes)>> ELSE <<>>)
         \o findall_task(Tail(nodes))

\* el.attrib.get("id", "")
ElementId(el) == IF el.id = None THEN <<>> ELSE el.id

\* el.attrib.get("name") or el.attrib.get("{...}name", ""): the plain name
\* unless it is absent or empty, then the qualified one, then "".
ElementName(el) ==
    IF el.name # None /\ el.name # <<>> THEN el.name
    ELSE IF el.qname = None THEN <<>> ELSE el.qname

\* Lines 50-55: one record per task element that has a non-empty name.
RECURSIVE NamedRecords(_)
NamedRecords(els) ==
    IF els = <<>> THEN <<>>
    ELSE (IF ElementName(Head(els)) # <<>>
          THEN <<[element_id |-> ElementId(Head(els)),
                  element_name |-> ElementName(Head(els))]>>
          ELSE <<>>)
         \o NamedRecords(Tail(els))

\* A de-duplication that keeps the last record of each id.
RECURSIVE DedupById_last_wins(_)
DedupById_last_wins(out) ==
    IF out = <<>> THEN <<>>
    ELSE (IF \E k \in 2..Len(out) : out[k].element_id = Head(out).element_id
          THEN <<>> ELSE <<Head(out)>>)
         \o DedupById_last_wins(Tail(out))

\* Lines 56-60: the records whose id was not seen before, in order.
RECURSIVE DedupFrom(_, _)
DedupFrom(out, seen) ==
    IF out = <<>> THEN <<>>
    ELSE IF Head(out).element_id \notin seen
         THEN <<Head(out)>>
              \o DedupFrom(Tail(out), seen \cup {Head(out).element_id})
         ELSE DedupFrom(Tail(out), seen)

DedupById(out) == DedupFrom(out, {})

\* The list parse_named_tasks returns for a well-formed document.
parse_named_tasks(doc) == DedupById(NamedRecords(findall_task(doc.nodes)))

---------------------------------------------------------------------------
(* build_task_maps and align_to_tasks *)

\* A table (pandas DataFrame) is [columns |-> set of column names,
\* rows |-> sequence of rows], a row a function from the columns to cells.
\* The position of a row in the sequence is its index label after
\* reset_index(drop=True).

\* A missing cell as pandas.read_csv yields it (float NaN).
NaN == <<"NaN">>

\* Series.astype(str) on one cell: a text stays, NaN becomes "nan".
astype_str(c) == IF c = NaN THEN <<"n", "a", "n">> ELSE c

\* {t["element_id"]: t["element_name"] for t in tasks}: a later task with
\* the same id overwrites the name of an earlier one.
id_to_name(ts) ==
    [i \in {ts[k].element_id : k \in DOMAIN ts} |->
        LET last == CHOOSE k \in DOMAIN ts :
                        /\ ts[k].element_id = i
                        /\ \A m \in DOMAIN ts : ts[m].element_id = i => m <= k
        IN  ts[last].element_name]

valid_ids(ts) == DOMAIN id_to_name(ts)

valid_names(ts) == {id_to_name(ts)[i] : i \in valid_ids(ts)}

\* Position of the first task carrying id i: the place of key i in the
\* insertion order of the dict id_to_name.
FirstIndex(ts, i) ==
    CHOOSE k \in DOMAIN ts :
        /\ ts[k].element_id = i
        /\ \A m \in DOMAIN ts : ts[m].element_id = i => k <= m

\* {v: k for k, v in id_to_name.items()}: of the ids sharing a name, the one
\* latest in insertion order wins.
name_to_id(ts) ==
    [n \in valid_names(ts) |->
        CHOOSE i \in valid_ids(ts) :
            /\ id_to_name(ts)[i] = n
            /\ \A j \in valid_ids(ts) :
                   id_to_name(ts)[j] = n => FirstIndex(ts, j) <= FirstIndex(ts, i)]

\* Lines 119-120: both identifier columns as trimmed text.
TrimIdentifiers(rows) ==
    [k \in DOMAIN rows |->
        [rows[k] EXCEPT !.element_id = strip(astype_str(@)),
                        !.element_name = strip(astype_str(@))]]

\* Lines 122-124: swap the two columns where they are reversed.
SwapReversed(rows, ts) ==
    [k \in DOMAIN rows |->
        IF rows[k].element_id \in valid_names(ts)
           /\ rows[k].element_name \in valid_ids(ts)
        THEN [rows[k] EXCEPT !.element_id = rows[k].element_name,
                             !.element_name = rows[k].element_id]
        ELSE rows[k]]

\* The move applied to every row whose name cell is a known id, also when
\* the id cell already holds a known id.
MoveIdFromName_unguarded(rows, ts) ==
    [k \in DOMAIN rows |->
        IF rows[k].element_name \in valid_ids(ts)
        THEN [rows[k] EXCEPT !.element_id = rows[k].element_name]
        ELSE rows[k]]

\* Lines 126-128: take the id from the name column where the id column holds
\* no known id and the name column holds one.
MoveIdFromName(rows, ts) ==
    [k \in DOMAIN rows |->
        IF rows[k].element_id \notin valid_ids(ts)
           /\ rows[k].element_name \in valid_ids(ts)
        THEN [rows[k] EXCEPT !.element_id = rows[k].element_name]
        ELSE rows[k]]

\* Lines 130-132: where the id is still unknown and the name is a known
\* name, look the id up by the name.
MapNameToId(rows, ts) ==
    [k \in DOMAIN rows |->
        IF rows[k].element_id \notin valid_ids(ts)
           /\ rows[k].element_name \in valid_names(ts)
        THEN [rows[k] EXCEPT !.element_id = name_to_id(ts)[rows[k].element_name]]
        ELSE rows[k]]

\* df[df["element_id"].isin(ids)]: the rows whose id is in ids, in order.
RECURSIVE SelectKnown(_, _)
SelectKnown(rows, ids) ==
    IF rows = <<>> THEN <<>>
    ELSE (IF Head(rows).element_id \in ids THEN <<Head(rows)>> ELSE <<>>)
         \o SelectKnown(Tail(rows), ids)

\* No row dropped: the names of the rows with a known id set from the id,
\* the other rows passed through.
DropUnknownAndSetNames_keep_all(rows, ts) ==
    [k \in DOMAIN rows |->
        IF rows[k].element_id \in valid_ids(ts)
        THEN [rows[k] EXCEPT !.element_name = id_to_name(ts)[rows[k].element_id]]
        ELSE rows[k]]

\* The rows with a known id kept, their names left as generated.
DropUnknownAndSetNames_keep_names(rows, ts) ==
    SelectKnown(rows, valid_ids(ts))

\* Lines 134-137: drop the rows whose id is unknown, set every name from
\* its id, renumber the index.
DropUnknownAndSetNames(rows, ts) ==
    LET kept == SelectKnown(rows, valid_ids(ts))
    IN  [k \in DOMAIN kept |->
            [kept[k] EXCEPT !.element_name = id_to_name(ts)[kept[k].element_id]]]

align_to_tasks(df, ts) ==
    IF ~({"element_id", "element_name"} \subseteq df.columns) THEN df
    ELSE LET r1 == TrimIdentifiers(df.rows)
             r2 == SwapReversed(r1, ts)
             r3 == MoveIdFromName(r2, ts)
             r4 == MapNameToId(r3, ts)
             r5 == DropUnknownAndSetNames(r4, ts)
         IN  [columns |-> df.columns, rows |-> r5]

\* (element_id, element_name) is the pair of one task of the list.
IsTask(ts, i, n) ==
    \E m \in DOMAIN ts : ts[m].element_id = i /\ ts[m].element_name = n

---------------------------------------------------------------------------
(* Idle values of the variables a specification does not use *)

SessionIdle ==
    /\ OPENAI_API_KEY = <<>>
    /\ uploaded = <<>>
    /\ tasks = <<>>
    /\ session_state = <<>>
    /\ clicked = "none"
    /\ st_error = <<>>
    /\ called = FALSE
    /\ failure = "none"

AlignIdle ==
    /\ arg_tasks = <<>>
    /\ arg_df = <<>>
    /\ ret_df = <<>>
    /\ align_pc = "idle"

ParseIdle ==
    /\ bpmn_xml = <<>>
    /\ ret_tasks = <<>>
    /\ parse_pc = "idle"

CleanIdle ==
    /\ raw = <<>>
    /\ txt1 = <<>>
    /\ txt2 = <<>>
    /\ clean_pc = "idle"

---------------------------------------------------------------------------
(* Spec: the session. Every action is one run of the script, started by a  *)
(* change of the uploader widget or by a click on one generate button.     *)

\* The keys of st.session_state that hold the results (line 249).
Kinds == {"kpis", "risks", "raci", "controls"}

KeyMissing ==
    [label |-> "OpenAI key is missing. Add OPENAI_API_KEY in Secrets to use this feature.",
     detail |-> "none"]

\* f"CSV parsing failed: {e}" for an exception e caught at lines 280-281.
CsvParsingFailed(e) == [label |-> "CSV parsing failed", detail |-> e]

\* A require_key that hands the configured key back without stopping the
\* script when it is empty.
require_key_no_stop(key) ==
    [stopped |-> FALSE, error |-> <<>>, key |-> key]

\* Lines 85-89: st.error and st.stop() when the key is empty, else the key.
require_key(key) ==
    IF key = <<>>
    THEN [stopped |-> TRUE, error |-> <<KeyMissing>>, key |-> key]
    ELSE [stopped |-> FALSE, error |-> <<>>, key |-> key]

\* A store that writes the new table into every result slot.
StoreResult_all_kinds(ss, k, df) == [j \in Kinds |-> <<df>>]

\* st.session_state[k] = df (lines 279, 304, 328, 354).
StoreResult(ss, k, df) == [ss EXCEPT ![k] = <<df>>]

\* The documents of the session: one task A named X, one task B named Y,
\* and a malformed file.
DocA ==
    [wellformed |-> TRUE,
     nodes |-> <<[tag |-> "task", id |-> <<"A">>, name |-> <<"X">>, qname |-> None]>>]

DocB ==
    [wellformed |-> TRUE,
     nodes |-> <<[tag |-> "task", id |-> <<"B">>, name |-> <<"Y">>, qname |-> None]>>]

DocMalformed == [wellformed |-> FALSE, nodes |-> <<>>]

SessionDocs == {DocA, DocB, DocMalformed}

OneRow(i, n) ==
    [columns |-> {"element_id", "element_name", "role"},
     rows |-> <<[element_id |-> i, element_name |-> n, role |-> 1]>>]

\* The tables pandas.read_csv may parse from the generated text: a correct
\* row for task A, a transposed row for task B, and a table without the name
\* column.
SessionTables ==
    { OneRow(<<"A">>, <<"X">>),
      OneRow(<<"Y">>, <<"B">>),
      [columns |-> {"element_id", "role"},
       rows |-> <<[element_id |-> <<"A">>, role |-> 1]>>] }

\* What lines 276-277 can produce: call_openai_rows raises, read_csv raises,
\* or read_csv returns a table.
Replies ==
    { [kind |-> "service_error", e |-> "APIConnectionError", df |-> <<>>],
      [kind |-> "unparseable", e |-> "ParserError", df |-> <<>>] }
    \cup { [kind |-> "table", e |-> "none", df |-> t] : t \in SessionTables }

Init ==
    /\ AlignIdle /\ ParseIdle /\ CleanIdle
    /\ OPENAI_API_KEY \in {<<>>, <<"s", "k">>}
    /\ uploaded = <<>>
    /\ tasks = <<>>
    /\ session_state = [k \in Kinds |-> <<>>]
    /\ clicked = "none"
    /\ st_error = <<>>
    /\ called = FALSE
    /\ failure = "none"

\* A file is put into the uploader (line 141); the script runs to its end
\* with no button pressed, or dies at line 185 on a malformed document.
UploadFile(doc) ==
    /\ uploaded' = <<doc>>
    /\ IF doc.wellformed
       THEN /\ tasks' = parse_named_tasks(doc)
            /\ failure' = "none"
       ELSE /\ tasks' = <<>>
            /\ failure' = "xml"
    /\ clicked' = "none"
    /\ st_error' = <<>>
    /\ called' = FALSE
    /\ UNCHANGED <<OPENAI_API_KEY, session_state, alignVars, parseVars, cleanVars>>

\* The file is taken out of the uploader; the script stops at line 182.
RemoveFile ==
    /\ uploaded # <<>>
    /\ uploaded' = <<>>
    /\ tasks' = <<>>
    /\ clicked' = "none"
    /\ st_error' = <<>>
    /\ called' = FALSE
    /\ failure' = "none"
    /\ UNCHANGED <<OPENAI_API_KEY, session_state, alignVars, parseVars, cleanVars>>

\* One of the four generate buttons is pressed (lines 261-281, 288-306,
\* 313-330, 337-356); the buttons exist only below a parsed document.
Generate(k) ==
    /\ uploaded # <<>>
    /\ uploaded[1].wellformed
    /\ clicked' = k
    /\ tasks' = parse_named_tasks(uploaded[1])
    /\ LET rk == require_key(OPENAI_API_KEY) IN
       IF rk.stopped
       THEN /\ st_error' = rk.error
            /\ called' = FALSE
            /\ failure' = "none"
            /\ session_state' = session_state
       ELSE \E reply \in Replies :
              /\ called' = TRUE
              /\ IF reply.kind = "table"
                 THEN /\ session_state' =
                             StoreResult(session_state, k,
                                         align_to_tasks(reply.df, tasks'))
                      /\ st_error' = <<>>
                      /\ failure' = "none"
                 ELSE /\ session_state' = session_state
                      /\ st_error' = <<CsvParsingFailed(reply.e)>>
                      /\ failure' = IF reply.kind = "service_error"
                                    THEN "service" ELSE "parse"
    /\ UNCHANGED <<OPENAI_API_KEY, uploaded, alignVars, parseVars, cleanVars>>

Next ==
    \/ \E doc \in SessionDocs : UploadFile(doc)
    \/ RemoveFile
    \/ \E k \in Kinds : Generate(k)

Spec == Init /\ [][Next]_vars

\* A well-formed document is in the uploader.
DocumentLoaded == uploaded # <<>> /\ uploaded[1].wellformed

\* C2: stored-table invariant: every row of every table in the four result
\* slots has an element_id of the current task list (that of the document
\* now uploaded) and that task's canonical name; a table generated for an
\* earlier document does not survive the upload of another document.
C2_StoredRowsMatchCurrentTasks ==
    DocumentLoaded =>
        \A k \in Kinds :
            session_state[k] # <<>> =>
                LET df == session_state[k][1] IN
                {"element_id", "element_name"} \subseteq df.columns =>
                    \A r \in DOMAIN df.rows :
                        IsTask(tasks, df.rows[r].element_id,
                                      df.rows[r].element_name)

\* C4: per-kind isolation: a generate action for one kind, whatever its
\* outcome, leaves the result slots of the other kinds and the task list
\* unchanged.
C4_PerKindIsolation ==
    [][\A k \in Kinds :
          clicked' = k =>
              /\ \A j \in Kinds \ {k} : session_state'[j] = session_state[j]
              /\ tasks' = tasks]_vars

\* A generate action for KPIs failed in CSV parsing while the KPI slot and
\* the risks slot held different tables.
C4_Witness ==
    /\ clicked = "kpis"
    /\ failure = "parse"
    /\ session_state["kpis"] # <<>>
    /\ session_state["risks"] # <<>>
    /\ session_state["kpis"] # session_state["risks"]

\* C5: credential gate: with no key configured every generate action is
\* refused with the missing-key message, call_openai_rows is not entered and
\* no result slot is written; call_openai_rows is only ever entered with a
\* non-empty key.
C5_CredentialGate ==
    [][/\ OPENAI_API_KEY = <<>> =>
            /\ ~called'
            /\ session_state' = session_state
            /\ clicked' \in Kinds => st_error' = <<KeyMissing>>
       /\ called' => OPENAI_API_KEY # <<>>]_vars

\* A generate button was pressed without a key and the run was refused.
C5_Witness ==
    /\ OPENAI_API_KEY = <<>>
    /\ clicked \in Kinds
    /\ st_error = <<KeyMissing>>
    /\ ~called

\* C9: distinct failure outcomes: a failure of the generation service is
\* never reported as a table-parse failure, a table-parse failure is reported
\* as one, and neither passes without an error message.
C9_DistinctFailureOutcomes ==
    /\ failure = "service" =>
           st_error # <<>> /\ st_error[1].label # "CSV parsing failed"
    /\ failure = "parse" =>
           st_error # <<>> /\ st_error[1].label = "CSV parsing failed"

---------------------------------------------------------------------------
(* SpecAlign: align_to_tasks applied to a table and a canonical task list *)

\* Identifiers and names a document can give its tasks: parse_named_tasks
\* copies both attributes verbatim, surrounding whitespace included, and
\* a name may be textually equal to another task's id.
TaskIds == { <<"A">>, <<"B">>, <<" ", "A">> }

TaskNames == { <<"B">>, <<" ", "A">> }

\* Cells the generator may put in the identifier columns.
Cells == { <<"A">>, <<"B">>, <<" ", "A">>, NaN }

\* The lists parse_named_tasks can return: no two tasks with one id.
TaskLists(n) ==
    UNION { { ts \in [1..k -> [element_id : TaskIds, element_name : TaskNames]] :
                \A a, b \in 1..k : ts[a].element_id = ts[b].element_id => a = b }
            : k \in 0..n }

\* Tables with the two identifier columns and a payload column "role" that
\* holds the row's original position.
FullTables(n) ==
    UNION { { [columns |-> {"element_id", "element_name", "role"},
               rows |-> [k \in 1..m |-> [element_id |-> p[k][1],
                                          element_name |-> p[k][2],
                                          role |-> k]]]
              : p \in [1..m -> Cells \X Cells] }
            : m \in 0..n }

\* Tables that lack one of the identifier columns, or both.
PartialTables(n) ==
    UNION { { [columns |-> {"element_id", "role"},
               rows |-> [k \in 1..m |-> [element_id |-> p[k], role |-> k]]]
              : p \in [1..m -> Cells] }
            \cup
            { [columns |-> {"element_name", "role"},
               rows |-> [k \in 1..m |-> [element_name |-> p[k], role |-> k]]]
              : p \in [1..m -> Cells] }
            \cup
            { [columns |-> {"role"}, rows |-> [k \in 1..m |-> [role |-> k]]] }
            : m \in 0..n }

InitAlign ==
    /\ SessionIdle /\ ParseIdle /\ CleanIdle
    /\ arg_tasks \in TaskLists(MaxTasks)
    /\ arg_df \in FullTables(MaxRows) \cup PartialTables(MaxRows)
    /\ ret_df = <<>>
    /\ align_pc = "start"

Align ==
    /\ align_pc = "start"
    /\ ret_df' = align_to_tasks(arg_df, arg_tasks)
    /\ align_pc' = "done"
    /\ UNCHANGED <<arg_tasks, arg_df, sessionVars, parseVars, cleanVars>>

NextAlign == Align

SpecAlign == InitAlign /\ [][NextAlign]_vars

\* align_to_tasks has returned for a table that has both identifier columns.
Aligned ==
    /\ align_pc = "done"
    /\ {"element_id", "element_name"} \subseteq arg_df.columns

\* The trimmed text of a cell, as lines 119-120 compute it.
Trimmed(c) == strip(astype_str(c))

InRows == DOMAIN arg_df.rows

\* The input row at position i is in the result.
Survives(i) == \E k \in DOMAIN ret_df.rows : ret_df.rows[k].role = i

\* The result row that came from the input row at position i.
OutRow(i) == ret_df.rows[CHOOSE k \in DOMAIN ret_df.rows : ret_df.rows[k].role = i]

\* C1: reconciler soundness: for a table with both identifier columns, every
\* row align_to_tasks returns has an element_id of the canonical id set and
\* the canonical name of that id as element_name.
C1_ReconcilerSound ==
    Aligned =>
        \A k \in DOMAIN ret_df.rows :
            IsTask(arg_tasks, ret_df.rows[k].element_id,
                              ret_df.rows[k].element_name)

\* A returned row whose name was not the canonical one in the input.
C1_Witness ==
    /\ Aligned
    /\ \E i \in InRows :
          /\ Survives(i)
          /\ ~IsTask(arg_tasks, Trimmed(arg_df.rows[i].element_id),
                                Trimmed(arg_df.rows[i].element_name))

\* The row at position i has, after trimming, neither a canonical id in
\* element_id nor a canonical id in element_name.
NoIdInEitherColumn(i) ==
    /\ Trimmed(arg_df.rows[i].element_id) \notin valid_ids(arg_tasks)
    /\ Trimmed(arg_df.rows[i].element_name) \notin valid_ids(arg_tasks)

\* C3 as stated: a row whose trimmed element_id is not a canonical id and
\* whose trimmed element_name is not a canonical id either is discarded, and
\* a table of N rows with exactly one such row, the others holding a
\* canonical id, yields N-1 rows.
C3_DropAsStated ==
    Aligned =>
        /\ \A i \in InRows : NoIdInEitherColumn(i) => ~Survives(i)
        /\ ( /\ Cardinality({i \in InRows : NoIdInEitherColumn(i)}) = 1
             /\ \A i \in InRows :
                   ~NoIdInEitherColumn(i) =>
                       Trimmed(arg_df.rows[i].element_id) \in valid_ids(arg_tasks) )
           => Len(ret_df.rows) = Len(arg_df.rows) - 1

\* The row at position i has, after trimming, no canonical id in either
\* column and no canonical name in element_name.
Unrecoverable(i) ==
    /\ NoIdInEitherColumn(i)
    /\ Trimmed(arg_df.rows[i].element_name) \notin valid_names(arg_tasks)

\* C3 amended: a row whose trimmed element_id is not a canonical id and whose
\* trimmed element_name is neither a canonical id nor a canonical name is
\* discarded, and a table of N rows with exactly one such row, the others
\* holding a canonical id in element_id, yields N-1 rows.
C3_DropUnrecoverable ==
    Aligned =>
        /\ \A i \in InRows : Unrecoverable(i) => ~Survives(i)
        /\ ( /\ Cardinality({i \in InRows : Unrecoverable(i)}) = 1
             /\ \A i \in InRows :
                   ~Unrecoverable(i) =>
                       Trimmed(arg_df.rows[i].element_id) \in valid_ids(arg_tasks) )
           => Len(ret_df.rows) = Len(arg_df.rows) - 1

\* Two rows, one unrecoverable and dropped, the other kept.
C3_Witness ==
    /\ Aligned
    /\ Len(arg_df.rows) = 2
    /\ Cardinality({i \in InRows : Unrecoverable(i)}) = 1
    /\ Len(ret_df.rows) = 1
    /\ \E i \in InRows : Unrecoverable(i) /\ ~Survives(i)

\* C6: swap recovery: for every canonical task T, a row whose element_id
\* equals T's name and whose element_name equals T's id is kept and returned
\* with element_id = T's id and element_name = T's name, its other columns
\* unchanged.
C6_SwapRecovered ==
    Aligned =>
        \A m \in DOMAIN arg_tasks : \A i \in InRows :
            ( /\ arg_df.rows[i].element_id = arg_tasks[m].element_name
              /\ arg_df.rows[i].element_name = arg_tasks[m].element_id )
            => /\ Survives(i)
               /\ OutRow(i).element_id = arg_tasks[m].element_id
               /\ OutRow(i).element_name = arg_tasks[m].element_name
               /\ OutRow(i).role = arg_df.rows[i].role

\* The swap of lines 122-124 applies to the row at position i.
SwapApplies(i) ==
    /\ Trimmed(arg_df.rows[i].element_id) \in valid_names(arg_tasks)
    /\ Trimmed(arg_df.rows[i].element_name) \in valid_ids(arg_tasks)

\* C10 as stated: a row whose trimmed element_id is already a canonical id
\* survives and keeps that id as its element_id.
C10_IdKeptAsStated ==
    Aligned =>
        \A i \in InRows :
            Trimmed(arg_df.rows[i].element_id) \in valid_ids(arg_tasks)
            => /\ Survives(i)
               /\ OutRow(i).element_id = Trimmed(arg_df.rows[i].element_id)

\* C10 amended: a row whose trimmed element_id is already a canonical id
\* survives; its element_id in the result is that same id, except where the
\* trimmed element_id is also some task's name and the trimmed element_name
\* is a canonical id (the swap applies): there it is the trimmed
\* element_name.
C10_IdKeptUnlessSwapped ==
    Aligned =>
        \A i \in InRows :
            Trimmed(arg_df.rows[i].element_id) \in valid_ids(arg_tasks)
            => /\ Survives(i)
               /\ OutRow(i).element_id =
                      IF SwapApplies(i)
                      THEN Trimmed(arg_df.rows[i].element_name)
                      ELSE Trimmed(arg_df.rows[i].element_id)

\* A row that needed trimming to show its canonical id, with another
\* canonical id in its name column, kept under its own id with the name
\* rewritten.
C10_Witness ==
    /\ Aligned
    /\ \E i \in InRows :
          /\ arg_df.rows[i].element_id # Trimmed(arg_df.rows[i].element_id)
          /\ Trimmed(arg_df.rows[i].element_id) \in valid_ids(arg_tasks)
          /\ arg_df.rows[i].element_name \in valid_ids(arg_tasks)
          /\ arg_df.rows[i].element_name # Trimmed(arg_df.rows[i].element_id)
          /\ ~SwapApplies(i)
          /\ Survives(i)
          /\ OutRow(i).element_id = Trimmed(arg_df.rows[i].element_id)
          /\ OutRow(i).element_name # arg_df.rows[i].element_name

---------------------------------------------------------------------------
(* SpecParse: parse_named_tasks applied to a document *)

\* The name attributes of an element: <<name, qname>>.
NameAttrs == { <<None, None>>, <<<<"X">>, None>>, <<<<"Y">>, <<"Q">>>>,
               <<<<>>, <<"Q">>>> }

Elements ==
    { [tag |-> t, id |-> i, name |-> n[1], qname |-> n[2]] :
        t \in {"task", "startEvent"}, i \in {None, <<"A">>, <<"B">>},
        n \in NameAttrs }

Documents(n) ==
    { [wellformed |-> TRUE, nodes |-> ns] :
        ns \in UNION { [1..k -> Elements] : k \in 0..n } }
    \cup { [wellformed |-> FALSE, nodes |-> <<>>] }

InitParse ==
    /\ SessionIdle /\ AlignIdle /\ CleanIdle
    /\ bpmn_xml \in Documents(MaxNodes)
    /\ ret_tasks = <<>>
    /\ parse_pc = "start"

\* Line 49 raises xml.etree.ElementTree.ParseError on a malformed document;
\* otherwise the list is returned.
Parse ==
    /\ parse_pc = "start"
    /\ IF bpmn_xml.wellformed
       THEN /\ ret_tasks' = parse_named_tasks(bpmn_xml)
            /\ parse_pc' = "returned"
       ELSE /\ ret_tasks' = ret_tasks
            /\ parse_pc' = "raised"
    /\ UNCHANGED <<bpmn_xml, sessionVars, alignVars, cleanVars>>

NextParse == Parse

SpecParse == InitParse /\ [][NextParse]_vars

\* The positions of the task elements of the document that carry id i.
TaskNodesWithId(i) ==
    {k \in DOMAIN bpmn_xml.nodes :
        bpmn_xml.nodes[k].tag = "task" /\ ElementId(bpmn_xml.nodes[k]) = i}

NamedTaskNodesWithId(i) ==
    {k \in TaskNodesWithId(i) : ElementName(bpmn_xml.nodes[k]) # <<>>}

Least(S) == CHOOSE k \in S : \A m \in S : k <= m

RecordsWithId(i) ==
    {k \in DOMAIN ret_tasks : ret_tasks[k].element_id = i}

NoDuplicateIds ==
    \A a, b \in DOMAIN ret_tasks :
        ret_tasks[a].element_id = ret_tasks[b].element_id => a = b

SharedIds ==
    {i \in {<<>>, <<"A">>, <<"B">>} : Cardinality(TaskNodesWithId(i)) >= 2}

\* C7 as stated: the returned list holds no two records with one
\* element_id, and an id shared by two task nodes yields exactly one record,
\* carrying the name of the first of those nodes in document order.
C7_DedupAsStated ==
    parse_pc = "returned" =>
        /\ NoDuplicateIds
        /\ \A i \in SharedIds :
              /\ Cardinality(RecordsWithId(i)) = 1
              /\ \A k \in RecordsWithId(i) :
                    ret_tasks[k].element_name =
                        ElementName(bpmn_xml.nodes[Least(TaskNodesWithId(i))])

\* C7 amended: the returned list holds no two records with one element_id;
\* an id shared by two task nodes of which at least one has a non-empty
\* name yields exactly one record, carrying the name of the first of the
\* nodes with that id that has a non-empty name; an id whose task nodes are
\* all nameless yields no record.
C7_DedupFirstNamed ==
    parse_pc = "returned" =>
        /\ NoDuplicateIds
        /\ \A i \in SharedIds :
              IF NamedTaskNodesWithId(i) = {}
              THEN RecordsWithId(i) = {}
              ELSE /\ Cardinality(RecordsWithId(i)) = 1
                   /\ \A k \in RecordsWithId(i) :
                         ret_tasks[k].element_name =
                             ElementName(bpmn_xml.nodes[Least(NamedTaskNodesWithId(i))])

\* Three task nodes share the id A: a nameless one, then two with different
\* names; the one record for A carries the first of the two names.
C7_Witness ==
    /\ parse_pc = "returned"
    /\ Len(bpmn_xml.nodes) = 3
    /\ TaskNodesWithId(<<"A">>) = {1, 2, 3}
    /\ NamedTaskNodesWithId(<<"A">>) = {2, 3}
    /\ ElementName(bpmn_xml.nodes[2]) # ElementName(bpmn_xml.nodes[3])
    /\ ret_tasks = <<[element_id |-> <<"A">>,
                      element_name |-> ElementName(bpmn_xml.nodes[2])]>>

---------------------------------------------------------------------------
(* SpecClean: clean_csv_text applied to a text, then to its own result *)

InitClean ==
    /\ SessionIdle /\ AlignIdle /\ ParseIdle
    /\ raw \in CleanInputs
    /\ txt1 = <<>>
    /\ txt2 = <<>>
    /\ clean_pc = "start"

CleanOnce ==
    /\ clean_pc = "start"
    /\ txt1' = clean_csv_text(raw)
    /\ clean_pc' = "once"
    /\ UNCHANGED <<raw, txt2, sessionVars, alignVars, parseVars>>

CleanTwice ==
    /\ clean_pc = "once"
    /\ txt2' = clean_csv_text(txt1)
    /\ clean_pc' = "twice"
    /\ UNCHANGED <<raw, txt1, sessionVars, alignVars, parseVars>>

NextClean == CleanOnce \/ CleanTwice

SpecClean == InitClean /\ [][NextClean]_vars

\* C8: normalizer idempotence: clean_csv_text(clean_csv_text(s)) equals
\* clean_csv_text(s) for every input text s.
C8_NormalizerIdempotent ==
    clean_pc = "twice" => txt2 = txt1

\* A fenced text with a backtick inside its body was normalized twice, and
\* the normalizer changed it.
C8_Witness ==
    /\ clean_pc = "twice"
    /\ raw # None
    /\ StartsWith(raw, Fence \o <<"c", "s", "v">>)
    /\ Len(raw) >= 9
    /\ Slice(raw, Len(raw) - 2, Len(raw)) = Fence
    /\ txt1 = <<"a">>

===========================================================================
